---- MODULE Spec2Model ----
(***************************************************************************)
(* A model of scripts/tailor_resume.js (the current revision of the        *)
(* script, source lines 208-522): the Generation Client (callGemini,       *)
(* postJson, extractTextFromResponseJson), the resume lookup, the renderer *)
(* and the main flow with its exit statuses and artifacts.                 *)
(*                                                                         *)
(* Text is modelled as a sequence of tokens (each token a TLA+ string), so *)
(* that concatenation, joining, serialisation and "contains" are computed  *)
(* and not assumed.  A JSON / JavaScript value is a tagged record.         *)
(***************************************************************************)
EXTENDS Integers, Sequences, FiniteSets, TLC

VARIABLES
    (* ---- environment, fixed for a run ---- *)
    apiKey,        \* process.env.GEMINI_API_KEY is set
    hasFetch,      \* typeof fetch !== 'undefined'
    requested,     \* argv['resume-path'] or its default
    existing,      \* the paths for which fs.existsSync is true
    (* ---- main flow ---- *)
    pc,            \* position of the main flow
    exitCode,      \* NoExit while running, else the process exit status
    err,           \* the value caught by the top-level catch (text), or <<>>
    failedAt,      \* the position at which the caught failure was raised
    files,         \* artifact name -> texts written during this run
    errWrite,      \* the catch handler's write: "none", "ok" or "failed"
    started,       \* the stages begun so far, in order
    resolved,      \* result of findResumeFile
    resumeText, tailored, gapsJson, fixedResume,
    (* ---- callGemini invocation in progress ---- *)
    prompt,        \* its prompt
    opts,          \* its options
    reqs,          \* the payloads sent by this invocation, in order
    bodies,        \* the response bodies it has received, in order (history)
    attempt1,      \* result of the first postJson, once it has returned
    attempt2,      \* result of the second postJson, once it has returned
    call,          \* "idle", "wait1", "wait2" or "returned"
    ret,           \* outcome of the invocation: "none", "text" or "raised"
    retText,       \* the returned text
    netCalls,      \* outbound generation requests of the whole run
    (* ---- renderer ---- *)
    browser,       \* "none", "open", "closing" (close called), "closed"
    (* ---- pure-function harness ---- *)
    xjson,         \* input given to extractTextFromResponseJson
    xout           \* its outcome, once applied

vars == << apiKey, hasFetch, requested, existing, pc, exitCode, err, failedAt,
           files, errWrite, started, resolved, resumeText, tailored, gapsJson,
           fixedResume, prompt, opts, reqs, bodies, attempt1, attempt2, call,
           ret, retText, netCalls, browser, xjson, xout >>

(***************************************************************************)
(* Bounds of the model.                                                    *)
(***************************************************************************)
MaxParts == 2      \* longest list of parts / outputs in a response body

(***************************************************************************)
(* JavaScript values.                                                      *)
(***************************************************************************)
JNull == [k |-> "null"]
JUndef == [k |-> "undefined"]
JBool(b) == [k |-> "bool", b |-> b]
JNum(n) == [k |-> "num", n |-> n]
JStr(s) == [k |-> "str", s |-> s]
JArr(a) == [k |-> "arr", a |-> a]
\* an object is the sequence of its <<key, value>> members, in order
JObj(o) == [k |-> "obj", o |-> o]

\* JavaScript truthiness (ToBoolean)
Truthy(v) ==
    CASE v.k = "null" -> FALSE
      [] v.k = "undefined" -> FALSE
      [] v.k = "bool" -> v.b
      [] v.k = "num" -> v.n # 0
      [] v.k = "str" -> v.s # <<>>
      [] OTHER -> TRUE

\* v.key for a value v that is neither null nor undefined
Get(v, key) ==
    IF v.k = "obj" /\ \E i \in 1..Len(v.o) : v.o[i][1] = key
    THEN v.o[CHOOSE i \in 1..Len(v.o) : v.o[i][1] = key][2]
    ELSE JUndef

\* v[0]
First(v) == IF v.k = "arr" /\ Len(v.a) > 0 THEN v.a[1] ELSE JUndef

IsString(v) == v.k = "str"
IsArray(v) == v.k = "arr"
IsNullish(v) == v.k \in {"null", "undefined"}

\* decimal text of the small numbers the model uses
NumStr(n) == IF n = 0 THEN "0" ELSE IF n = 5 THEN "5" ELSE "n"

\* escaping of one token inside a JSON string literal
Escape(tok) ==
    CASE tok = "\n" -> "\\n"
      [] tok = "\"" -> "\\\""
      [] OTHER -> tok

EscapeAll(s) == [i \in 1..Len(s) |-> Escape(s[i])]

RECURSIVE JoinWith(_, _)
\* Array.prototype.join on texts
JoinWith(ts, sep) ==
    IF ts = <<>> THEN <<>>
    ELSE IF Len(ts) = 1 THEN ts[1]
    ELSE ts[1] \o <<sep>> \o JoinWith(Tail(ts), sep)

RECURSIVE Stringify(_)
\* JSON.stringify of a value obtained from JSON
Stringify(v) ==
    CASE v.k = "null" -> <<"null">>
      [] v.k = "undefined" -> <<"null">>
      [] v.k = "bool" -> IF v.b THEN <<"true">> ELSE <<"false">>
      [] v.k = "num" -> <<NumStr(v.n)>>
      [] v.k = "str" -> <<"\"">> \o EscapeAll(v.s) \o <<"\"">>
      [] v.k = "arr" ->
            <<"[">> \o JoinWith([i \in 1..Len(v.a) |-> Stringify(v.a[i])], ",")
                    \o <<"]">>
      [] v.k = "obj" ->
            <<"{">> \o JoinWith([i \in 1..Len(v.o) |->
                                   <<"\"", v.o[i][1], "\"", ":">>
                                      \o Stringify(v.o[i][2])], ",")
                    \o <<"}">>

RECURSIVE JsToString(_)
\* String(v), as Array.prototype.join applies it to an element
JsToString(v) ==
    CASE v.k = "null" -> <<>>
      [] v.k = "undefined" -> <<>>
      [] v.k = "bool" -> IF v.b THEN <<"true">> ELSE <<"false">>
      [] v.k = "num" -> <<NumStr(v.n)>>
      [] v.k = "str" -> v.s
      [] v.k = "arr" ->
            JoinWith([i \in 1..Len(v.a) |-> JsToString(v.a[i])], ",")
      [] v.k = "obj" -> <<"[object Object]">>

\* outcome of an evaluation: a text, or a thrown error with its description
Returns(t) == [threw |-> FALSE, val |-> t]
Throws(t) == [threw |-> TRUE, val |-> t]
TypeErrorText == <<"TypeError: Cannot read properties of null">>

(***************************************************************************)
(* extractTextFromResponseJson                                             *)
(***************************************************************************)
\* p => (typeof p === 'string' ? p : (p.text || JSON.stringify(p)))
ContentPart(p) ==
    IF IsString(p) THEN p
    ELSE IF Truthy(Get(p, "text")) THEN Get(p, "text")
    ELSE JStr(Stringify(p))

\* o => (o.text || JSON.stringify(o))
TextOrJson(o) ==
    IF Truthy(Get(o, "text")) THEN Get(o, "text") ELSE JStr(Stringify(o))

\* list.map(f).join('\n') with f = ContentPart; f throws on a null element
MapJoinContent(list) ==
    IF \E i \in 1..Len(list) : ~IsString(list[i]) /\ IsNullish(list[i])
    THEN Throws(TypeErrorText)
    ELSE Returns(JoinWith([i \in 1..Len(list) |->
                              JsToString(ContentPart(list[i]))], "\n"))

\* list.map(f).join('\n') with f = TextOrJson; f throws on a null element
MapJoinText(list) ==
    IF \E i \in 1..Len(list) : IsNullish(list[i])
    THEN Throws(TypeErrorText)
    ELSE Returns(JoinWith([i \in 1..Len(list) |->
                              JsToString(TextOrJson(list[i]))], "\n"))

\* the last two steps: the top-level output list, then the fallback
ExtractTail(json) ==
    IF /\ IsArray(Get(json, "output"))
       /\ Truthy(First(Get(json, "output")))
       /\ IsArray(Get(First(Get(json, "output")), "content"))
    THEN MapJoinText(Get(First(Get(json, "output")), "content").a)
    ELSE Returns(Stringify(json))

\* the body of `if (Array.isArray(json.candidates) && json.candidates[0])`
ExtractCandidate(json, cand) ==
    IF IsString(Get(cand, "content")) THEN Returns(Get(cand, "content").s)
    ELSE IF IsArray(Get(cand, "content"))
         THEN MapJoinContent(Get(cand, "content").a)
    ELSE IF IsArray(Get(cand, "output"))
         THEN MapJoinText(Get(cand, "output").a)
    ELSE IF /\ Truthy(Get(cand, "message"))
            /\ Truthy(Get(Get(cand, "message"), "content"))
            /\ IsString(Get(Get(cand, "message"), "content"))
         THEN Returns(Get(Get(cand, "message"), "content").s)
    ELSE IF /\ Truthy(Get(cand, "message"))
            /\ Truthy(Get(Get(cand, "message"), "content"))
            /\ IsArray(Get(Get(cand, "message"), "content"))
         THEN MapJoinText(Get(Get(cand, "message"), "content").a)
    ELSE ExtractTail(json)

extractTextFromResponseJson(json) ==
    IF ~Truthy(json) THEN Returns(<<>>)
    ELSE IF IsString(Get(json, "output_text"))
         THEN Returns(Get(json, "output_text").s)
    ELSE IF IsArray(Get(json, "candidates"))
            /\ Truthy(First(Get(json, "candidates")))
         THEN ExtractCandidate(json, First(Get(json, "candidates")))
    ELSE ExtractTail(json)

(***************************************************************************)
(* Program constants and run inputs.                                       *)
(***************************************************************************)
ExitSuccess == 0
ExitNoKey == 1
ExitNotFound == 2
ExitFailure == 10
NoExit == 0 - 1

\* argv defaults and samples
JobTitle == <<"Software Engineer">>
JobDesc == <<"JD">>
Company == <<"Company">>

(***************************************************************************)
(* findResumeFile.  A requested path is [abs, segs]; a candidate is the    *)
(* sequence of its segments, beginning with "cwd" (process.cwd()) or "/".  *)
(***************************************************************************)
Rel(segs) == [abs |-> FALSE, segs |-> segs]
Abs(segs) == [abs |-> TRUE, segs |-> segs]

\* String.prototype.toLowerCase on the file names of the model
toLowerCase(name) ==
    CASE name = "Keshav-resume.docx" -> "keshav-resume.docx"
      [] name = "Keshav_resume.docx" -> "keshav_resume.docx"
      [] OTHER -> name

\* name.replace(/-/g, '_') on the file names of the model
DashToUnderscore(name) ==
    CASE name = "Keshav-resume.docx" -> "Keshav_resume.docx"
      [] name = "keshav-resume.docx" -> "keshav_resume.docx"
      [] OTHER -> name

\* path.join(process.cwd(), ...segs)
JoinCwd(segs) == <<"cwd">> \o segs

\* requestedPath.startsWith(dir + '/')
StartsWithDir(req, dir) ==
    ~req.abs /\ Len(req.segs) >= 2 /\ req.segs[1] = dir

\* requestedPath.replace(/^from\//, 'to/')
ReplaceDir(req, from, to) ==
    IF StartsWithDir(req, from) THEN <<to>> \o Tail(req.segs) ELSE req.segs

RECURSIVE Dedup(_, _)
\* candidates.filter(...) with the `seen` set: first occurrences, in order
Dedup(cands, seen) ==
    IF cands = <<>> THEN <<>>
    ELSE IF Head(cands) \in seen THEN Dedup(Tail(cands), seen)
    ELSE <<Head(cands)>> \o Dedup(Tail(cands), seen \cup {Head(cands)})

Candidates(req) ==
    LET first == IF req.abs THEN <<"/">> \o req.segs ELSE JoinCwd(req.segs)
        folders ==
            IF ~StartsWithDir(req, "resumes") /\ ~StartsWithDir(req, "resume")
            THEN << JoinCwd(<<"resumes">> \o req.segs),
                    JoinCwd(<<"resume">> \o req.segs) >>
            ELSE << JoinCwd(ReplaceDir(req, "resumes", "resume")),
                    JoinCwd(ReplaceDir(req, "resume", "resumes")) >>
        base == req.segs[Len(req.segs)]
        bases == << JoinCwd(<<base>>),
                    JoinCwd(<<toLowerCase(base)>>),
                    JoinCwd(<<DashToUnderscore(base)>>) >>
    IN  Dedup(<<first>> \o folders \o bases, {})

NotFound == <<>>
\* `resolvedResume` before line 467 has run
Unresolved == <<"(unset)">>

\* a lookup that returns its first candidate without testing it
findResumeFileUnchecked(req, fs) == Candidates(req)[1]

\* a lookup that goes through the candidates from the last to the first
findResumeFileLast(req, fs) ==
    LET uniq == Candidates(req)
    IN  IF \E i \in 1..Len(uniq) : uniq[i] \in fs
        THEN uniq[CHOOSE i \in 1..Len(uniq) :
                    uniq[i] \in fs
                      /\ \A j \in (i + 1)..Len(uniq) : uniq[j] \notin fs]
        ELSE NotFound

\* the first candidate that exists, or null (modelled as the empty path)
findResumeFile(req, fs) ==
    LET uniq == Candidates(req)
    IN  IF \E i \in 1..Len(uniq) : uniq[i] \in fs
        THEN uniq[CHOOSE i \in 1..Len(uniq) :
                    uniq[i] \in fs /\ \A j \in 1..(i - 1) : uniq[j] \notin fs]
        ELSE NotFound

(***************************************************************************)
(* Prompt builders.                                                        *)
(***************************************************************************)
buildTailorPrompt(text, title, desc) ==
    <<"You are an expert resume writer. Tailor ... START ===">> \o text
      \o <<"=== EXISTING RESUME TEXT END === Job title: ">> \o title
      \o <<"Job description:">> \o desc \o <<"Task: ... (no analysis).">>

buildRecruiterReviewPrompt(md, comp, title, desc) ==
    <<"You are now a recruiter at ">> \o comp \o <<" reviewing ... role: ">>
      \o title \o <<"Job description:">> \o desc
      \o <<"Candidate tailored resume:">> \o md
      \o <<"Task: ... Return the response as JSON ...">>

buildFixPrompt(md, gaps) ==
    <<"You are an expert resume writer. Given ... Tailored resume:">> \o md
      \o <<"Recruiter gaps (JSON):">> \o gaps
      \o <<"Task: ... Return only the final updated resume in Markdown.">>

(***************************************************************************)
(* callGemini: payloads, postJson, the fallback decision, the errors.      *)
(***************************************************************************)
\* options are [temperature (in hundredths), maxOutputTokens]
TailorOpts == [temperature |-> 20, maxOutputTokens |-> 4096]
ReviewOpts == [temperature |-> 10, maxOutputTokens |-> 1024]
FixOpts == [temperature |-> 15, maxOutputTokens |-> 4096]

\* contents = [{ parts: [{ text: prompt }] }]
Contents(p) == << [parts |-> << [text |-> p] >>] >>

\* body1 = { contents, candidateConfig }
Body1(p, o) ==
    [contents |-> Contents(p),
     candidateConfig |-> [temperature |-> o.temperature,
                          maxOutputTokens |-> o.maxOutputTokens]]

\* the payload without the options
MinimalPayload(p) == [contents |-> Contents(p)]

\* a retry that sends the options again
Body2WithConfig(p, o) == Body1(p, o)

\* body2 = { contents }
Body2(p, o) == MinimalPayload(p)

\* a success test that lets client errors through
OkBelow500(status) == status < 500

\* res.ok
Ok(status) == status \div 100 = 2

StatusStr(status) ==
    CASE status = 200 -> "200"
      [] status = 400 -> "400"
      [] status = 500 -> "500"
      [] OTHER -> "status"

\* A response is [status, isJson, val, raw]: a body that parses as JSON to
\* val, or a body of text raw that does not parse.
JsonResponse(status, val) ==
    [status |-> status, isJson |-> TRUE, val |-> val, raw |-> Stringify(val)]
TextResponse(status, raw) ==
    [status |-> status, isJson |-> FALSE, val |-> JNull, raw |-> raw]

\* postJson's result for a response.  res.json() rejects on a body that is
\* not JSON; res.text() is then called on the same response, and textRead
\* says whether it resolves (otherwise .catch(() => null) gives null).
postJson(res, textRead) ==
    [ok |-> Ok(res.status),
     status |-> res.status,
     json |-> IF res.isJson THEN res.val ELSE JNull,
     text |-> IF ~res.isJson /\ textRead THEN JStr(res.raw) ELSE JNull]

NoAttempt == [ok |-> FALSE, status |-> 0, json |-> JUndef, text |-> JUndef]

\* `${v}` for a string or null
Template(v) == IF v.k = "str" THEN v.s ELSE IF v.k = "null" THEN <<"null">>
               ELSE JsToString(v)

\* attempt.json ? JSON.stringify(attempt.json) : attempt.text
BodyOrText(att) ==
    IF Truthy(att.json) THEN JStr(Stringify(att.json)) ELSE att.text

\* errText (line 334)
ErrText(att) ==
    IF Truthy(att.json) THEN Stringify(att.json)
    ELSE IF Truthy(att.text) THEN att.text.s
    ELSE <<"status ", StatusStr(att.status)>>

UnknownNameToks == {"Unknown name", "unknown name", "UNKNOWN NAME"}
OptionToks == {"temperature", "Temperature", "maxOutputTokens",
               "maxoutputtokens"}

\* /Unknown name.*temperature|Unknown name.*maxOutputTokens/i.test(t):
\* `.` does not match a line break
UnknownOptionRegex(t) ==
    \E i \in 1..Len(t) : \E j \in (i + 1)..Len(t) :
        /\ t[i] \in UnknownNameToks
        /\ t[j] \in OptionToks
        /\ \A m \in (i + 1)..(j - 1) : t[m] # "\n"

\* the condition of line 335
UnknownFieldBranch(att) ==
    att.status = 400 /\ UnknownOptionRegex(ErrText(att))

\* the message of the Error thrown when the second attempt fails too
BothFailedMessage(a1, a2) ==
    IF UnknownFieldBranch(a1)
    THEN <<"Gemini API error (both attempts failed). First: ">>
           \o ErrText(a1) \o <<". Second: ">> \o Template(BodyOrText(a2))
    ELSE <<"Gemini API error. Attempt1: ">> \o Template(BodyOrText(a1))
           \o <<". Attempt2: ">> \o Template(BodyOrText(a2))

\* String(err) for an Error with this message
ErrorString(msg) == <<"Error: ">> \o msg

FetchMissingMessage ==
    <<"Global fetch is not available in this Node runtime.">>
FetchRejected == <<"TypeError: fetch failed">>

(***************************************************************************)
(* Stage 2: the embedded-JSON heuristic of lines 488-496.                  *)
(***************************************************************************)
WsToks == {" ", "\n"}
LiteralToks == {"null", "true", "false", "0", "5"}

RECURSIVE SkipWs(_, _)
SkipWs(t, i) ==
    IF i <= Len(t) /\ t[i] \in WsToks THEN SkipWs(t, i + 1) ELSE i

\* index after the string literal beginning at i, or 0
ParseString(t, i) ==
    IF i <= Len(t) /\ t[i] = "\"" /\ \E j \in (i + 1)..Len(t) : t[j] = "\""
    THEN LET j == CHOOSE j \in (i + 1)..Len(t) :
                      t[j] = "\"" /\ \A m \in (i + 1)..(j - 1) : t[m] # "\""
         IN  IF \A m \in (i + 1)..(j - 1) : t[m] # "\n" THEN j + 1 ELSE 0
    ELSE 0

\* the value of an expression, computed once: Only({F(x) : x \in {e}})
Only(S) == CHOOSE r \in S : TRUE

RECURSIVE ParseValue(_, _), ParseElems(_, _), ParseMembers(_, _)
\* index after the JSON value beginning at i (white space skipped), or 0
ParseValue(t, i) ==
    Only({ IF a > Len(t) THEN 0
           ELSE IF t[a] \in LiteralToks THEN a + 1
           ELSE IF t[a] = "\"" THEN ParseString(t, a)
           ELSE IF t[a] = "["
                THEN Only({ IF b <= Len(t) /\ t[b] = "]" THEN b + 1
                            ELSE ParseElems(t, b) : b \in {SkipWs(t, a + 1)} })
           ELSE IF t[a] = "{"
                THEN Only({ IF b <= Len(t) /\ t[b] = "}" THEN b + 1
                            ELSE ParseMembers(t, b) : b \in {SkipWs(t, a + 1)} })
           ELSE 0 : a \in {SkipWs(t, i)} })

\* the rest of an array from an element at i: index after "]", or 0
ParseElems(t, i) ==
    Only({ IF e = 0 THEN 0
           ELSE Only({ IF c > Len(t) THEN 0
                       ELSE IF t[c] = "," THEN ParseElems(t, c + 1)
                       ELSE IF t[c] = "]" THEN c + 1
                       ELSE 0 : c \in {SkipWs(t, e)} })
           : e \in {ParseValue(t, i)} })

\* index after the value of a member whose key ends before k, or 0
MemberValue(t, k) ==
    IF k = 0 THEN 0
    ELSE Only({ IF c <= Len(t) /\ t[c] = ":" THEN ParseValue(t, c + 1)
                ELSE 0 : c \in {SkipWs(t, k)} })

\* the rest of an object from a member at i: index after "}", or 0
ParseMembers(t, i) ==
    Only({ IF v = 0 THEN 0
           ELSE Only({ IF d > Len(t) THEN 0
                       ELSE IF t[d] = "," THEN ParseMembers(t, d + 1)
                       ELSE IF t[d] = "}" THEN d + 1
                       ELSE 0 : d \in {SkipWs(t, v)} })
           : v \in {Only({ MemberValue(t, k)
                           : k \in {ParseString(t, SkipWs(t, i))} })} })

\* JSON.parse(text) does not throw
JsonParses(text) ==
    \E t \in {text} : \E e \in {ParseValue(t, 1)} :
        e # 0 /\ SkipWs(t, e) = Len(t) + 1

\* gapsRaw.match(/\{[\s\S]*\}/) is not null
BraceMatch(t) ==
    \E i \in 1..Len(t) : \E j \in (i + 1)..Len(t) : t[i] = "{" /\ t[j] = "}"

\* m[0]: from the first "{" to the last "}"
BraceSlice(t) ==
    LET i == CHOOSE i \in 1..Len(t) :
                 t[i] = "{" /\ \A m \in 1..(i - 1) : t[m] # "{"
        j == CHOOSE j \in 1..Len(t) :
                 t[j] = "}" /\ \A m \in (j + 1)..Len(t) : t[m] # "}"
    IN  SubSeq(t, i, j)

\* the value of gapsJson after the try/catch
GapsOf(gapsRaw) ==
    LET cand == IF BraceMatch(gapsRaw) THEN BraceSlice(gapsRaw) ELSE gapsRaw
    IN  IF JsonParses(cand) THEN cand ELSE gapsRaw

(***************************************************************************)
(* saveMarkdownAsPdf: the pure part.                                       *)
(***************************************************************************)
BuiltinTemplate ==
    << "<!doctype html><html><head><meta charset=utf-8><title>", "{{TITLE}}",
       "</title></head><body>", "{{CONTENT}}", "</body></html>" >>

\* marked.parse(markdownText)
MarkedParse(md) == <<"<p>">> \o md \o <<"</p>", "\n">>

\* t.replace(tok, by): the first occurrence only
ReplaceFirst(t, tok, by) ==
    IF \E i \in 1..Len(t) : t[i] = tok
    THEN LET i == CHOOSE i \in 1..Len(t) :
                      t[i] = tok /\ \A m \in 1..(i - 1) : t[m] # tok
         IN  SubSeq(t, 1, i - 1) \o by \o SubSeq(t, i + 1, Len(t))
    ELSE t

Filled(md, title) ==
    ReplaceFirst(ReplaceFirst(BuiltinTemplate, "{{CONTENT}}", MarkedParse(md)),
                 "{{TITLE}}", title)

RenderTitle == JobTitle \o <<" - Tailored Resume">>
PdfOf(html) == <<"%PDF">> \o html

(***************************************************************************)
(* The inputs of a run.                                                    *)
(***************************************************************************)
DefaultResume == Rel(<<"resumes", "Keshav-resume.docx">>)
RequestedPaths == {DefaultResume, Rel(<<"cv.docx">>)}
FsUniverse == { <<"cwd", "resumes", "Keshav-resume.docx">>,
                <<"cwd", "resume", "Keshav-resume.docx">>,
                <<"cwd", "cv.docx">> }

ResumeTexts == { <<"Keshav", "\n", "Engineer">> }

Obj1(key, v) == JObj(<< <<key, v>> >>)
TextPart(t) == Obj1("text", JStr(t))

GapsText == <<"{", "\"", "gaps", "\"", ":", "[", "]", "}">>

\* the harness before the function has been applied
NotApplied == [done |-> FALSE, threw |-> FALSE, val |-> <<>>]

\* bodies of successful responses
OkBodies ==
    { Obj1("output_text", JStr(<<"# Resume">>)),
      Obj1("candidates", JArr(<< Obj1("content",
            JArr(<< TextPart(<<"Here:">>), TextPart(GapsText) >>)) >>)),
      Obj1("candidates", JArr(<< Obj1("content",
            Obj1("parts", JArr(<< TextPart(<<"# Resume">>) >>))) >>)),
      Obj1("candidates", JArr(<< Obj1("content", JArr(<< JNull >>)) >>)),
      Obj1("output_text", JStr(<<"{", "not json", "}">>)) }

\* bodies of failed responses that are JSON
FailJsonBodies ==
    { Obj1("error", Obj1("message",
            JStr(<<"Unknown name", "\"", "temperature", "\"">>))),
      Obj1("error", Obj1("message", JStr(<<"quota exceeded">>))) }

\* bodies of failed responses that are not JSON
FailTextBodies == { <<"<html>", "Unknown name", "maxOutputTokens">> }

FailStatuses == {400, 500}

OkResponses ==
    {JsonResponse(200, v) : v \in OkBodies} \cup {TextResponse(200, <<"OK">>)}
FailResponses ==
    {JsonResponse(st, v) : st \in FailStatuses, v \in FailJsonBodies}
      \cup {TextResponse(st, t) : st \in FailStatuses, t \in FailTextBodies}

\* what `await fetch(...)` followed by the body reads can produce
FetchOutcomes ==
    {[kind |-> "rejected"]}
      \cup {[kind |-> "response", res |-> r, textRead |-> FALSE] :
                r \in OkResponses \cup FailResponses}
      \cup {[kind |-> "response", res |-> r, textRead |-> TRUE] :
                r \in {q \in FailResponses : ~q.isJson}}

Artifacts == { "tailored_resume_stage1.md", "recruiter_gaps.json.txt",
               "tailored_resume_final.md", "tailored_resume_rendered.html",
               "tailored_resume_final.pdf", "error.txt" }

GenStages == {"tailor", "critique", "revise"}

(***************************************************************************)
(* The state after the script has been loaded by node.                     *)
(***************************************************************************)
IdleRun ==
    /\ pc = "load" /\ exitCode = NoExit /\ err = <<>> /\ failedAt = "none"
    /\ files = [a \in Artifacts |-> <<>>] /\ errWrite = "none"
    /\ started = <<>> /\ resolved = Unresolved
    /\ resumeText = <<>> /\ tailored = <<>> /\ gapsJson = <<>>
    /\ fixedResume = <<>>
    /\ prompt = <<>> /\ opts = TailorOpts /\ reqs = <<>> /\ bodies = <<>>
    /\ attempt1 = NoAttempt /\ attempt2 = NoAttempt
    /\ call = "idle" /\ ret = "none" /\ retText = <<>> /\ netCalls = 0
    /\ browser = "none"

Init ==
    /\ apiKey \in BOOLEAN
    /\ hasFetch \in BOOLEAN
    /\ requested \in RequestedPaths
    /\ existing \in SUBSET FsUniverse
    /\ IdleRun
    /\ xjson = JNull /\ xout = NotApplied

envVars == << apiKey, hasFetch, requested, existing >>
harnessVars == << xjson, xout >>
textVars == << resumeText, tailored, gapsJson, fixedResume >>
callVars == << prompt, opts, reqs, bodies, attempt1, attempt2, call, ret,
               retText, netCalls >>

\* a throw inside the try block of the main flow, raised at position `at`
Raise(at, e) == pc' = "catch" /\ err' = e /\ failedAt' = at

\* process.exit(code)
Exit(code) == pc' = "exited" /\ exitCode' = code

\* fs.writeFileSync(output/name, text)
Write(f, name, text) == [f EXCEPT ![name] = Append(@, text)]

FsError == <<"Error: EACCES: permission denied">>
(***************************************************************************)
(* Module load and the main flow.                                          *)
(***************************************************************************)
\* lines 220-224: the credential check at load
LoadModule ==
    /\ pc = "load"
    /\ IF ~apiKey THEN Exit(ExitNoKey) ELSE pc' = "main" /\ exitCode' = exitCode
    /\ UNCHANGED << envVars, harnessVars, textVars, callVars, err, failedAt,
                    files, errWrite, started, resolved, browser >>

\* a not-found resume raised as an error into the catch, as the earlier
\* revision of the script did (lines 175-177)
ResolveResumeThrows ==
    /\ pc = "main"
    /\ \E fsOk \in BOOLEAN :
         IF ~fsOk
         THEN Raise("main", FsError) /\ UNCHANGED << exitCode, resolved >>
         ELSE /\ resolved' = findResumeFile(requested, existing)
              /\ IF resolved' = NotFound
                 THEN Raise("main", <<"Error: Resume file not found">>)
                        /\ exitCode' = exitCode
                 ELSE pc' = "extract" /\ UNCHANGED << exitCode, err, failedAt >>
    /\ UNCHANGED << envVars, harnessVars, textVars, callVars, files, errWrite,
                    started, browser >>

\* lines 464-472: ensure the output folder, resolve the resume
ResolveResume ==
    /\ pc = "main"
    /\ \E fsOk \in BOOLEAN :
         IF ~fsOk
         THEN Raise("main", FsError) /\ UNCHANGED << exitCode, resolved >>
         ELSE /\ resolved' = findResumeFile(requested, existing)
              /\ UNCHANGED << err, failedAt >>
              /\ IF resolved' = NotFound THEN Exit(ExitNotFound)
                 ELSE pc' = "extract" /\ exitCode' = exitCode
    /\ UNCHANGED << envVars, harnessVars, textVars, callVars, files, errWrite,
                    started, browser >>

\* line 474 and lines 280-281: read the file, start the conversion; the
\* read throws when the file is missing or unreadable
ExtractText ==
    /\ pc = "extract"
    /\ started' = Append(started, "ExtractText")
    /\ \E readOk \in (IF resolved \in existing THEN BOOLEAN ELSE {FALSE}) :
         IF readOk THEN pc' = "extracting" /\ UNCHANGED << err, failedAt >>
         ELSE Raise("extract", FsError)
    /\ UNCHANGED << envVars, harnessVars, textVars, callVars, exitCode, files,
                    errWrite, resolved, browser >>

\* lines 281-282, 475: the conversion resolves or rejects
ExtractDone ==
    /\ pc = "extracting"
    /\ \/ /\ \E t \in ResumeTexts : resumeText' = t
          /\ pc' = "tailor"
          /\ UNCHANGED << err, failedAt >>
       \/ /\ Raise("extract", <<"Error: Could not find file in options">>)
          /\ UNCHANGED resumeText
    /\ UNCHANGED << envVars, harnessVars, tailored, gapsJson, fixedResume,
                    callVars, exitCode, files, errWrite, started, resolved,
                    browser >>

(***************************************************************************)
(* callGemini.                                                             *)
(***************************************************************************)
\* lines 289-328: entry of callGemini up to the first `await fetch`
CallStart(stage, p, o) ==
    /\ pc = stage /\ call = "idle"
    /\ prompt' = p /\ opts' = o
    /\ attempt1' = NoAttempt /\ attempt2' = NoAttempt /\ retText' = <<>>
    /\ bodies' = <<>>
    /\ IF ~hasFetch
       THEN /\ Raise(stage, ErrorString(FetchMissingMessage))
            /\ reqs' = <<>> /\ ret' = "raised"
            /\ UNCHANGED << call, netCalls >>
       ELSE /\ reqs' = << Body1(p, o) >>
            /\ netCalls' = netCalls + 1
            /\ call' = "wait1" /\ ret' = "none"
            /\ UNCHANGED << pc, err, failedAt >>

\* `return extractTextFromResponseJson(attempt.json)`
ReturnExtract(json) ==
    LET x == extractTextFromResponseJson(json)
    IN  IF x.threw
        THEN /\ Raise(pc, x.val)
             /\ ret' = "raised" /\ call' = "idle" /\ UNCHANGED retText
        ELSE /\ retText' = x.val
             /\ ret' = "text" /\ call' = "returned"
             /\ UNCHANGED << pc, err, failedAt >>

\* lines 328-347: the first postJson returns
Attempt1Returns ==
    /\ pc \in GenStages /\ call = "wait1"
    /\ \E out \in FetchOutcomes :
         IF out.kind = "rejected"
         THEN /\ Raise(pc, FetchRejected)
              /\ ret' = "raised" /\ call' = "idle"
              /\ UNCHANGED << reqs, bodies, attempt1, retText, netCalls >>
         ELSE LET a == postJson(out.res, out.textRead)
              IN  /\ attempt1' = a
                  /\ bodies' = Append(bodies, out.res.raw)
                  /\ IF a.ok
                     THEN ReturnExtract(a.json) /\ UNCHANGED << reqs, netCalls >>
                     ELSE /\ reqs' = Append(reqs, Body2(prompt, opts))
                          /\ netCalls' = netCalls + 1
                          /\ call' = "wait2"
                          /\ UNCHANGED << pc, err, failedAt, ret, retText >>
    /\ UNCHANGED << envVars, harnessVars, textVars, prompt, opts, attempt2,
                    exitCode, files, errWrite, started, resolved, browser >>

\* lines 339-343 and 347-353: the second postJson returns
Attempt2Returns ==
    /\ pc \in GenStages /\ call = "wait2"
    /\ \E out \in FetchOutcomes :
         IF out.kind = "rejected"
         THEN /\ Raise(pc, FetchRejected)
              /\ ret' = "raised" /\ call' = "idle"
              /\ UNCHANGED << bodies, attempt2, retText >>
         ELSE LET a == postJson(out.res, out.textRead)
              IN  /\ attempt2' = a
                  /\ bodies' = Append(bodies, out.res.raw)
                  /\ IF a.ok
                     THEN ReturnExtract(a.json)
                     ELSE /\ Raise(pc, ErrorString(BothFailedMessage(attempt1, a)))
                          /\ ret' = "raised" /\ call' = "idle"
                          /\ UNCHANGED retText
    /\ UNCHANGED << envVars, harnessVars, textVars, prompt, opts, reqs,
                    attempt1, netCalls, exitCode, files, errWrite, started,
                    resolved, browser >>

(***************************************************************************)
(* The three generation stages.                                            *)
(***************************************************************************)
\* lines 478-480
TailorStart ==
    /\ CallStart("tailor", buildTailorPrompt(resumeText, JobTitle, JobDesc),
                 TailorOpts)
    /\ started' = Append(started, "TailorDraft")
    /\ UNCHANGED << envVars, harnessVars, textVars, exitCode, files, errWrite,
                    resolved, browser >>

\* a continuation that advances to the next stage without the write
SaveArtifactSkipped(stage, name, text, next) ==
    /\ pc = stage /\ call = "returned"
    /\ call' = "idle"
    /\ reqs' = <<>> /\ attempt1' = NoAttempt /\ attempt2' = NoAttempt
    /\ bodies' = <<>>
    /\ pc' = next
    /\ UNCHANGED << envVars, harnessVars, prompt, opts, ret, retText,
                    netCalls, exitCode, errWrite, started, resolved, browser,
                    resumeText, err, failedAt, files >>

\* a stage's continuation writes its artifact: the write succeeds or throws.
\* The locals of the callGemini invocation that has returned are gone.
SaveArtifact(stage, name, text, next) ==
    /\ pc = stage /\ call = "returned"
    /\ call' = "idle"
    /\ reqs' = <<>> /\ attempt1' = NoAttempt /\ attempt2' = NoAttempt
    /\ bodies' = <<>>
    /\ \E fsOk \in BOOLEAN :
         IF fsOk
         THEN /\ files' = Write(files, name, text)
              /\ pc' = next
              /\ UNCHANGED << err, failedAt >>
         ELSE Raise(stage, FsError) /\ UNCHANGED files
    /\ UNCHANGED << envVars, harnessVars, prompt, opts, ret, retText,
                    netCalls, exitCode, errWrite, started, resolved, browser,
                    resumeText >>

\* a main flow that goes from the saved draft straight to the revision
TailorSaveSkipsCritique ==
    /\ tailored' = retText
    /\ SaveArtifact("tailor", "tailored_resume_stage1.md", retText, "revise")
    /\ UNCHANGED << gapsJson, fixedResume >>

\* lines 480-482
TailorSave ==
    /\ tailored' = retText
    /\ SaveArtifact("tailor", "tailored_resume_stage1.md", retText, "critique")
    /\ UNCHANGED << gapsJson, fixedResume >>

\* lines 485-487
CritiqueStart ==
    /\ CallStart("critique",
                 buildRecruiterReviewPrompt(tailored, Company, JobTitle, JobDesc),
                 ReviewOpts)
    /\ started' = Append(started, "CritiqueGaps")
    /\ UNCHANGED << envVars, harnessVars, textVars, exitCode, files, errWrite,
                    resolved, browser >>

\* a stage 2 that saves the raw response as the artifact while handing the
\* extracted object on
CritiqueSaveRawArtifact ==
    /\ SaveArtifact("critique", "recruiter_gaps.json.txt", retText, "revise")
    /\ gapsJson' = GapsOf(retText)
    /\ UNCHANGED << tailored, fixedResume >>

\* a stage 2 without the inner try/catch: the SyntaxError of JSON.parse
\* reaches the catch of the main flow
CritiqueSaveStrict ==
    LET cand == IF BraceMatch(retText) THEN BraceSlice(retText) ELSE retText
    IN  /\ pc = "critique" /\ call = "returned"
        /\ IF JsonParses(cand)
           THEN /\ SaveArtifact("critique", "recruiter_gaps.json.txt", cand,
                                "revise")
                /\ gapsJson' = cand
                /\ UNCHANGED << tailored, fixedResume >>
           ELSE /\ call' = "idle"
                /\ reqs' = <<>> /\ attempt1' = NoAttempt
                /\ attempt2' = NoAttempt /\ bodies' = <<>>
                /\ Raise("critique", <<"SyntaxError: Unexpected token">>)
                /\ UNCHANGED << envVars, harnessVars, textVars, prompt, opts,
                                ret, retText, netCalls, exitCode, errWrite,
                                started, resolved, browser, files >>

\* lines 487-498
CritiqueSave ==
    /\ SaveArtifact("critique", "recruiter_gaps.json.txt", GapsOf(retText),
                    "revise")
    /\ gapsJson' = GapsOf(retText)
    /\ UNCHANGED << tailored, fixedResume >>

\* lines 501-503
ReviseStart ==
    /\ CallStart("revise", buildFixPrompt(tailored, gapsJson), FixOpts)
    /\ started' = Append(started, "ReviseDraft")
    /\ UNCHANGED << envVars, harnessVars, textVars, exitCode, files, errWrite,
                    resolved, browser >>

\* lines 503-505
ReviseSave ==
    /\ fixedResume' = retText
    /\ SaveArtifact("revise", "tailored_resume_final.md", retText, "render")
    /\ UNCHANGED << tailored, gapsJson >>

(***************************************************************************)
(* saveMarkdownAsPdf, and the end of the main flow.                        *)
(***************************************************************************)
renderVars == << envVars, harnessVars, textVars, callVars, exitCode, errWrite,
                 started, resolved >>

\* one awaited browser step: it resolves, or rejects into the main catch
BrowserStep(at, next, failure) ==
    /\ pc = at
    /\ \/ pc' = next /\ UNCHANGED << err, failedAt >>
       \/ Raise("render", failure)

\* a renderer that launches the browser before it has saved the HTML
RenderStartLaunchFirst ==
    /\ pc = "render"
    /\ started' = Append(started, "RenderPdf")
    /\ pc' = "launching"
    /\ UNCHANGED << envVars, harnessVars, textVars, callVars, exitCode,
                    errWrite, resolved, browser, err, failedAt, files >>

\* lines 508-510, 442-453: fill the template, persist it, launch the browser
RenderStart ==
    /\ pc = "render"
    /\ started' = Append(started, "RenderPdf")
    /\ \E fsOk \in BOOLEAN :
         IF fsOk
         THEN /\ files' = Write(files, "tailored_resume_rendered.html",
                                Filled(fixedResume, RenderTitle))
              /\ pc' = "launching"
              /\ UNCHANGED << err, failedAt >>
         ELSE Raise("render", FsError) /\ UNCHANGED files
    /\ UNCHANGED << envVars, harnessVars, textVars, callVars, exitCode,
                    errWrite, resolved, browser >>

\* line 453-454: puppeteer.launch settles; on success newPage is called
LaunchDone ==
    /\ BrowserStep("launching", "newpage", <<"Error: Failed to launch">>)
    /\ browser' = IF pc' = "newpage" THEN "open" ELSE browser
    /\ UNCHANGED << renderVars, files >>

\* lines 454-455: browser.newPage settles; on success setContent is called
NewPageDone ==
    /\ BrowserStep("newpage", "setcontent", <<"Error: Protocol error">>)
    /\ UNCHANGED << renderVars, files, browser >>

\* lines 455-456: page.setContent settles; on success page.pdf is called
SetContentDone ==
    /\ BrowserStep("setcontent", "pdf", <<"TimeoutError: Navigation timeout">>)
    /\ UNCHANGED << renderVars, files, browser >>

\* a page.pdf that resolves without having produced the file
PdfDoneNoFile ==
    /\ BrowserStep("pdf", "closing", <<"Error: Printing failed">>)
    /\ browser' = IF pc' = "closing" THEN "closing" ELSE browser
    /\ UNCHANGED << renderVars, files >>

\* lines 456-457: page.pdf settles; on success browser.close is called
PdfDone ==
    /\ BrowserStep("pdf", "closing", <<"Error: Printing failed">>)
    /\ files' = IF pc' = "closing"
                THEN Write(files, "tailored_resume_final.pdf",
                           PdfOf(Filled(fixedResume, RenderTitle)))
                ELSE files
    /\ browser' = IF pc' = "closing" THEN "closing" ELSE browser
    /\ UNCHANGED renderVars

\* lines 457, 512-513: browser.close settles; on success the run is done
CloseDone ==
    /\ pc = "closing"
    /\ \/ browser' = "closed" /\ Exit(ExitSuccess) /\ UNCHANGED << err, failedAt >>
       \/ Raise("render", <<"Error: close failed">>)
            /\ UNCHANGED << browser, exitCode >>
    /\ UNCHANGED << envVars, harnessVars, textVars, callVars, started,
                    resolved, files, errWrite >>

\* a catch that reports on the console only and ends with the default status
CatchHandlerExitsZero ==
    /\ pc = "catch"
    /\ \E fsOk \in BOOLEAN :
         /\ files' = IF fsOk THEN Write(files, "error.txt", err) ELSE files
         /\ errWrite' = IF fsOk THEN "ok" ELSE "failed"
    /\ Exit(ExitSuccess)
    /\ UNCHANGED << envVars, harnessVars, textVars, callVars, err, failedAt,
                    started, resolved, browser >>

\* a catch that does not persist the error
CatchHandlerNoWrite ==
    /\ pc = "catch"
    /\ Exit(ExitFailure)
    /\ UNCHANGED << envVars, harnessVars, textVars, callVars, err, failedAt,
                    files, errWrite, started, resolved, browser >>

\* a catch that writes the error file and does not call process.exit
CatchHandlerNoExit ==
    /\ pc = "catch" /\ errWrite = "none"
    /\ \E fsOk \in BOOLEAN :
         /\ files' = IF fsOk THEN Write(files, "error.txt", err) ELSE files
         /\ errWrite' = IF fsOk THEN "ok" ELSE "failed"
    /\ UNCHANGED << envVars, harnessVars, textVars, callVars, err, failedAt,
                    started, resolved, browser, pc, exitCode >>

\* lines 514-520: the top-level catch; a failure of its own write is ignored
CatchHandler ==
    /\ pc = "catch"
    /\ \E fsOk \in BOOLEAN :
         /\ files' = IF fsOk THEN Write(files, "error.txt", err) ELSE files
         /\ errWrite' = IF fsOk THEN "ok" ELSE "failed"
    /\ Exit(ExitFailure)
    /\ UNCHANGED << envVars, harnessVars, textVars, callVars, err, failedAt,
                    started, resolved, browser >>

Next ==
    \/ LoadModule
    \/ ResolveResume
    \/ ExtractText
    \/ ExtractDone
    \/ TailorStart
    \/ Attempt1Returns
    \/ Attempt2Returns
    \/ TailorSave
    \/ CritiqueStart
    \/ CritiqueSave
    \/ ReviseStart
    \/ ReviseSave
    \/ RenderStart
    \/ LaunchDone
    \/ NewPageDone
    \/ SetContentDone
    \/ PdfDone
    \/ CloseDone
    \/ CatchHandler

Spec == Init /\ [][Next]_vars

\* every awaited external call (file read, request, browser step) settles,
\* and the synchronous code between two awaits runs to the next one
FairSpec == Spec /\ WF_vars(Next)

TypeOK ==
    /\ pc \in {"load", "main", "extract", "extracting", "tailor", "critique",
               "revise", "render", "launching", "newpage", "setcontent", "pdf",
               "closing", "catch", "exited"}
    /\ exitCode \in {NoExit, ExitSuccess, ExitNoKey, ExitNotFound, ExitFailure}
    /\ call \in {"idle", "wait1", "wait2", "returned"}
    /\ ret \in {"none", "text", "raised"}
    /\ browser \in {"none", "open", "closing", "closed"}
    /\ netCalls \in 0..6
    /\ Len(reqs) \in 0..2
(***************************************************************************)
(* extractTextFromResponseJson on its own: the function applied to every   *)
(* body of a bounded family of JSON values.                                *)
(***************************************************************************)
RECURSIVE SeqsUpTo(_, _)
\* the sequences over S of length at most n
SeqsUpTo(S, n) ==
    IF n = 0 THEN {<<>>}
    ELSE LET shorter == SeqsUpTo(S, n - 1)
         IN  shorter \cup {Append(q, x) : q \in shorter, x \in S}

RECURSIVE Present(_)
\* the members of an object literal whose value is present
Present(members) ==
    IF members = <<>> THEN <<>>
    ELSE IF Head(members)[2] = JUndef THEN Present(Tail(members))
    ELSE <<Head(members)>> \o Present(Tail(members))

MkObj(members) == JObj(Present(members))

PartValues ==
    { TextPart(<<"P">>), TextPart(<<"Q">>), TextPart(<<>>), JStr(<<"S">>),
      JNull, Obj1("text", JNum(5)) }
PartLists == SeqsUpTo(PartValues, MaxParts)

OutputTextOpts == { JUndef, JStr(<<"OT">>), JStr(<<>>), JNum(5) }
ContentOpts ==
    { JUndef, JStr(<<"C">>), JStr(<<>>),
      Obj1("parts", JArr(<< TextPart(<<"G">>) >>)) }
      \cup { JArr(l) : l \in PartLists }
OutputOpts == { JUndef, JArr(<< TextPart(<<"O">>) >>), JArr(<< JNull >>) }
MessageOpts ==
    { JUndef, JNull, Obj1("content", JStr(<<"M">>)), Obj1("content", JStr(<<>>)),
      Obj1("content", JArr(<< TextPart(<<"ML">>) >>)) }
TopOutputOpts ==
    { JUndef, JArr(<<>>), JArr(<< JNull >>),
      JArr(<< Obj1("content", JArr(<< TextPart(<<"T">>) >>)) >>) }

CandidateValues ==
    { MkObj(<< <<"content", c>>, <<"output", o>>, <<"message", m>> >>) :
        c \in ContentOpts, o \in OutputOpts, m \in MessageOpts }
CandidatesOpts ==
    { JUndef, JArr(<<>>), JArr(<< JNull >>) }
      \cup { JArr(<< c >>) : c \in CandidateValues }

ExtractInputs ==
    { MkObj(<< <<"output_text", ot>>, <<"candidates", cs>>, <<"output", out>> >>) :
        ot \in OutputTextOpts, cs \in CandidatesOpts, out \in TopOutputOpts }
      \cup { JNull, JBool(FALSE), JBool(TRUE), JNum(0), JNum(5), JStr(<<>>),
             JStr(<<"text">>), JArr(<<>>) }

InitExtract ==
    /\ apiKey = TRUE /\ hasFetch = TRUE
    /\ requested = DefaultResume /\ existing = {}
    /\ IdleRun
    /\ xjson \in ExtractInputs
    /\ xout = NotApplied

\* the harness calls the function once on its input
ApplyExtract ==
    /\ ~xout.done
    /\ LET x == extractTextFromResponseJson(xjson)
       IN  xout' = [done |-> TRUE, threw |-> x.threw, val |-> x.val]
    /\ UNCHANGED << envVars, textVars, callVars, pc, exitCode, err, failedAt,
                    files, errWrite, started, resolved, browser, xjson >>

NextExtract == ApplyExtract

SpecExtract == InitExtract /\ [][NextExtract]_vars

(***************************************************************************)
(* A harness for findResumeFile: a requested path, a file system.          *)
(***************************************************************************)
FindRequests ==
    { DefaultResume,
      Rel(<<"resume", "Keshav-resume.docx">>),
      Rel(<<"cv.docx">>),
      Abs(<<"home", "cv.docx">>) }

FindUniverse ==
    { <<"cwd", "resumes", "Keshav-resume.docx">>,
      <<"cwd", "resume", "Keshav-resume.docx">>,
      <<"cwd", "Keshav-resume.docx">>,
      <<"cwd", "keshav-resume.docx">>,
      <<"cwd", "Keshav_resume.docx">>,
      <<"cwd", "cv.docx">>,
      <<"cwd", "resumes", "cv.docx">>,
      <<"/", "home", "cv.docx">> }

InitFind ==
    /\ apiKey = TRUE /\ hasFetch = TRUE
    /\ requested \in FindRequests
    /\ existing \in SUBSET FindUniverse
    /\ IdleRun
    /\ xjson = JNull /\ xout = NotApplied

\* the harness calls the function once on its input (line 467)
ApplyFind ==
    /\ resolved = Unresolved
    /\ resolved' = findResumeFile(requested, existing)
    /\ UNCHANGED << envVars, harnessVars, textVars, callVars, pc, exitCode,
                    err, failedAt, files, errWrite, started, browser >>

NextFind == ApplyFind

SpecFind == InitFind /\ [][NextFind]_vars
(***************************************************************************)
(* The documented response shapes, as the specification describes them.    *)
(***************************************************************************)
IsObject(v) == v.k = "obj"

\* every element of the list is a part carrying a text
PartsWithText(list) ==
    \A i \in 1..Len(list) : IsObject(list[i]) /\ IsString(Get(list[i], "text"))

\* the texts of the parts, joined by a line break
EmbeddedText(list) ==
    JoinWith([i \in 1..Len(list) |-> Get(list[i], "text").s], "\n")

HasCandidate(json) ==
    /\ IsObject(json)
    /\ IsArray(Get(json, "candidates"))
    /\ IsObject(First(Get(json, "candidates")))

Candidate0(json) == First(Get(json, "candidates"))

\* the first documented shape the response matches, in the priority order
ShapeOf(json) ==
    IF IsObject(json) /\ IsString(Get(json, "output_text")) THEN "output_text"
    ELSE IF HasCandidate(json) /\ IsString(Get(Candidate0(json), "content"))
         THEN "content_string"
    ELSE IF HasCandidate(json) /\ IsArray(Get(Candidate0(json), "content"))
         THEN "content_parts"
    ELSE IF HasCandidate(json) /\ IsArray(Get(Candidate0(json), "output"))
         THEN "candidate_output"
    ELSE IF /\ HasCandidate(json)
            /\ IsObject(Get(Candidate0(json), "message"))
            /\ IsString(Get(Get(Candidate0(json), "message"), "content"))
         THEN "message_string"
    ELSE IF /\ HasCandidate(json)
            /\ IsObject(Get(Candidate0(json), "message"))
            /\ IsArray(Get(Get(Candidate0(json), "message"), "content"))
         THEN "message_parts"
    ELSE IF /\ IsObject(json)
            /\ IsArray(Get(json, "output"))
            /\ IsObject(First(Get(json, "output")))
            /\ IsArray(Get(First(Get(json, "output")), "content"))
         THEN "top_output"
    ELSE "none"

\* the list of parts of a list-valued shape
ShapeList(json) ==
    CASE ShapeOf(json) = "content_parts" -> Get(Candidate0(json), "content").a
      [] ShapeOf(json) = "candidate_output" -> Get(Candidate0(json), "output").a
      [] ShapeOf(json) = "message_parts" ->
            Get(Get(Candidate0(json), "message"), "content").a
      [] ShapeOf(json) = "top_output" ->
            Get(First(Get(json, "output")), "content").a
      [] OTHER -> <<>>

\* the text the documented shape embeds
ShapeText(json) ==
    CASE ShapeOf(json) = "output_text" -> Get(json, "output_text").s
      [] ShapeOf(json) = "content_string" -> Get(Candidate0(json), "content").s
      [] ShapeOf(json) = "message_string" ->
            Get(Get(Candidate0(json), "message"), "content").s
      [] ShapeOf(json) = "none" -> Stringify(json)
      [] OTHER -> EmbeddedText(ShapeList(json))

\* the response is one the statement about shapes speaks of: a JSON object
\* whose first matching shape, if it is a list, is a list of parts with text
Documented(json) ==
    /\ IsObject(json)
    /\ ShapeOf(json) \in {"content_parts", "candidate_output", "message_parts",
                          "top_output"} => PartsWithText(ShapeList(json))

\* C5 (as stated): for every response the result is the text embedded in
\* the first matching shape of the priority order (output_text, then
\* candidates[0].content as string, as list of parts joined by line breaks,
\* candidates[0].output, candidates[0].message.content, output[0].content),
\* and the whole response serialised when no shape matches.
C5_FirstShapeText ==
    (xout.done /\ Documented(xjson))
        => (~xout.threw /\ xout.val = ShapeText(xjson))

\* C6 (as stated): response parsing is total: for every response body the
\* function returns a string and never raises.
C6_ExtractTotal == xout.done => ~xout.threw
(***************************************************************************)
(* Statements about callGemini.                                            *)
(***************************************************************************)
\* the invocation in progress has returned its text to the main flow
CallReturned == pc \in GenStages /\ call = "returned" /\ ret = "text"
\* the invocation has raised into the main flow's catch
CallRaised == pc \in {"catch", "exited"} /\ failedAt \in GenStages /\ ret = "raised"
CallFinished == CallReturned \/ CallRaised

\* the first request was answered, with a success / a failure status
FirstSucceeded == Len(bodies) >= 1 /\ attempt1.status \div 100 = 2
FirstFailed == Len(bodies) >= 1 /\ attempt1.status \div 100 # 2
SecondSucceeded == Len(bodies) = 2 /\ attempt2.status \div 100 = 2
SecondFailed == Len(bodies) = 2 /\ attempt2.status \div 100 # 2

\* every request of the invocation got a response
Answered == Len(reqs) >= 1 /\ Len(bodies) = Len(reqs)

\* sub occurs in t
Contains(t, sub) ==
    \E i \in 0..(Len(t) - Len(sub)) : SubSeq(t, i + 1, i + Len(sub)) = sub

\* C1 (as stated): every invocation of callGemini issues one or two
\* requests, never zero: none further when the first attempt succeeds, and
\* exactly one further, with the minimal payload, whenever the first
\* attempt does not succeed.
C1_OneOrTwoRequests ==
    CallFinished =>
        /\ Len(reqs) \in {1, 2}
        /\ FirstSucceeded => Len(reqs) = 1
        /\ ~FirstSucceeded =>
              (Len(reqs) = 2 /\ reqs[2] = [contents |-> Contents(prompt)])

\* C1 (amended): at most two requests are ever sent by an invocation; a
\* second one is sent exactly when the first was answered with a failure
\* status, and it carries the minimal payload; an invocation sends no
\* request at all exactly when global fetch is unavailable.
C1_Requests ==
    /\ Len(reqs) <= 2
    /\ Len(reqs) = 2 <=> FirstFailed
    /\ Len(reqs) = 2 => reqs[2] = [contents |-> Contents(prompt)]
    /\ CallFinished => (Len(reqs) = 0 <=> ~hasFetch)
    /\ CallFinished /\ Len(reqs) = 0 => ret = "raised"

\* C1 witness: an invocation whose first attempt failed has returned the
\* text of its second, minimal request.
C1_Witness ==
    CallReturned /\ FirstFailed /\ Len(reqs) = 2 /\ SecondSucceeded

\* C2 (as stated, for the invocations whose requests were answered):
\* callGemini raises only when both attempts failed, and returns text
\* whenever one of the two attempts succeeded.
C2_RaisesOnlyAfterTwoFailures ==
    (CallFinished /\ Answered) =>
        /\ ret = "raised" => (Len(reqs) = 2 /\ FirstFailed /\ SecondFailed)
        /\ (FirstSucceeded \/ SecondSucceeded) => ret = "text"

\* C3 (as stated): when both attempts fail, the raised error's message
\* contains the failure body of the first attempt and that of the second.
C3_BothBodiesInMessage ==
    (CallRaised /\ FirstFailed /\ SecondFailed) =>
        (Contains(err, bodies[1]) /\ Contains(err, bodies[2]))

\* C4: when the first attempt fails with a body naming an unrecognised
\* option, the second request's payload has the prompt field only, with the
\* prompt of the first request.
C4_FallbackPayloadIsMinimal ==
    (FirstFailed /\ UnknownOptionRegex(bodies[1])) =>
        /\ Len(reqs) = 2
        /\ DOMAIN reqs[2] = {"contents"}
        /\ reqs[2].contents = reqs[1].contents
        /\ reqs[1].contents = << [parts |-> << [text |-> prompt] >>] >>
        /\ DOMAIN reqs[1] = {"contents", "candidateConfig"}

\* C4 witness: the fallback request is in flight after a 400 response that
\* names the temperature option.
C4_Witness ==
    /\ call = "wait2" /\ Len(reqs) = 2
    /\ attempt1.status = 400 /\ UnknownFieldBranch(attempt1)
    /\ UnknownOptionRegex(bodies[1])
(***************************************************************************)
(* Statements about the exit status and the error artifact.                *)
(***************************************************************************)
Exited == pc = "exited"

AllStages ==
    << "ExtractText", "TailorDraft", "CritiqueGaps", "ReviseDraft", "RenderPdf" >>

\* the stage that runs at a position of the main flow
StageAt(at) ==
    CASE at = "extract" -> "ExtractText"
      [] at = "tailor" -> "TailorDraft"
      [] at = "critique" -> "CritiqueGaps"
      [] at = "revise" -> "ReviseDraft"
      [] at = "render" -> "RenderPdf"
      [] OTHER -> "none"

\* a stage has failed and the failure was caught
StageFailed == failedAt \in {"extract", "tailor", "critique", "revise", "render"}

\* all five stages were begun and none failed
FullSuccess == started = AllStages /\ failedAt = "none"

\* no candidate location holds the resume
ResumeAbsent ==
    \A i \in 1..Len(Candidates(requested)) :
        Candidates(requested)[i] \notin existing

\* the renderer has reached the browser launch
LaunchReached ==
    \/ pc \in {"launching", "newpage", "setcontent", "pdf", "closing"}
    \/ browser # "none"

\* C7 (as stated): the exit status is 0 only on full success, the not-found
\* code exactly when the resume cannot be located, and one other code for
\* every other failure.
C7_ThreeExitCodes ==
    Exited =>
        /\ exitCode = ExitSuccess => FullSuccess
        /\ exitCode = ExitNotFound <=> ResumeAbsent
        /\ (~FullSuccess /\ ~ResumeAbsent) => exitCode = ExitFailure
        /\ Cardinality({ExitSuccess, ExitNotFound, ExitFailure}) = 3

\* C7 (amended): the exit status is one of four pairwise distinct codes: 0
\* exactly on full success, 1 exactly when the credential is missing, 2
\* exactly when the lookup ran and found no candidate, 10 exactly when a
\* failure was caught by the main flow.
C7_ExitCodes ==
    Exited =>
        /\ exitCode \in {ExitSuccess, ExitNoKey, ExitNotFound, ExitFailure}
        /\ exitCode = ExitSuccess <=> FullSuccess
        /\ exitCode = ExitNoKey <=> ~apiKey
        /\ exitCode = ExitNotFound <=> resolved = NotFound
        /\ exitCode = ExitNotFound => ResumeAbsent
        /\ exitCode = ExitFailure <=> failedAt # "none"
        /\ Cardinality({ExitSuccess, ExitNoKey, ExitNotFound, ExitFailure}) = 4

\* C7 witness: a run with a credential has ended with the not-found status.
C7_Witness == Exited /\ apiKey /\ ResumeAbsent /\ exitCode = ExitNotFound

\* C8 (as stated): with the resume absent at every candidate location the
\* process exits with the not-found status and no network call is made and
\* the browser is never launched.
C8_AbsentResumeExitsNotFound ==
    ResumeAbsent =>
        /\ netCalls = 0 /\ ~LaunchReached
        /\ Exited => exitCode = ExitNotFound

\* C8 (amended): with the resume absent at every candidate location no
\* request is ever sent and the browser is never launched; the run ends with
\* the not-found status when the credential is present and the output
\* folder could be ensured, with the missing-credential status when the
\* credential is missing, and with the failure status only for a failure
\* raised before the lookup.
C8_AbsentResumeNoNetwork ==
    ResumeAbsent =>
        /\ netCalls = 0 /\ reqs = <<>> /\ ~LaunchReached /\ started = <<>>
        /\ (Exited /\ apiKey /\ failedAt = "none") => exitCode = ExitNotFound
        /\ (Exited /\ ~apiKey) => exitCode = ExitNoKey
        /\ (Exited /\ exitCode = ExitFailure) => failedAt = "main"

\* C8 witness: the run ended with the not-found status, nothing sent.
C8_Witness ==
    Exited /\ ResumeAbsent /\ resolved = NotFound /\ exitCode = ExitNotFound
        /\ netCalls = 0

\* C9 (as stated): after a stage failure no later stage is started, the
\* error artifact holding the failure description is written, and the exit
\* status is non-zero.
C9_StageFailureWritesError ==
    (Exited /\ StageFailed) =>
        /\ started[Len(started)] = StageAt(failedAt)
        /\ files["error.txt"] = << err >> /\ err # <<>>
        /\ exitCode # ExitSuccess

\* C9 (amended): after a stage failure no later stage is started, the catch
\* handler attempts to write the error artifact with the failure
\* description (the artifact is there unless that write itself fails), and
\* the exit status is the failure status, which is not the success status.
C9_StageFailureAborts ==
    (Exited /\ StageFailed) =>
        /\ started[Len(started)] = StageAt(failedAt)
        /\ err # <<>>
        /\ errWrite \in {"ok", "failed"}
        /\ errWrite = "ok" => files["error.txt"] = << err >>
        /\ errWrite = "failed" => files["error.txt"] = <<>>
        /\ exitCode = ExitFailure /\ ExitFailure # ExitSuccess

\* C9 witness: the critique stage failed; the run ended with the error
\* artifact written and the revise stage never begun.
C9_Witness ==
    /\ Exited /\ failedAt = "critique" /\ errWrite = "ok"
    /\ started = << "ExtractText", "TailorDraft", "CritiqueGaps" >>

\* C10 (as stated): whenever the process ends with a non-zero status the
\* error file has been written during the run.
C10_ErrorArtifactAlways ==
    (Exited /\ exitCode # ExitSuccess) => Len(files["error.txt"]) >= 1

\* C10 (amended): a run that ends with the failure status has attempted to
\* write the error file, which then holds the error unless that write
\* failed; a run that ends with the missing-credential, the not-found or the
\* success status has not written it.
C10_ErrorArtifact ==
    Exited =>
        /\ exitCode = ExitFailure =>
              /\ errWrite # "none"
              /\ errWrite = "ok" <=> files["error.txt"] = << err >>
        /\ exitCode # ExitFailure =>
              (errWrite = "none" /\ files["error.txt"] = <<>>)

\* C10 witness: a generation failure has ended the run with the error file
\* holding the error.
C10_Witness ==
    /\ Exited /\ exitCode = ExitFailure /\ failedAt \in GenStages
    /\ ret = "raised" /\ files["error.txt"] = << err >>
(***************************************************************************)
(* Statements about the renderer and the artifacts of a run.               *)
(***************************************************************************)
\* the renderer has raised into the main flow's catch
RenderRaised == pc \in {"catch", "exited"} /\ failedAt = "render"

\* C11 (as stated): once the browser has been launched, browser.close has
\* been called by the time the renderer returns or raises, whether page
\* creation, setting the content or the PDF export succeeded or threw.
C11_BrowserClosedOnEveryPath ==
    (pc \in {"catch", "exited"} /\ browser # "none")
        => browser \in {"closing", "closed"}

\* the five artifacts of a successful run
RunArtifacts == Artifacts \ {"error.txt"}

\* C12: a run that ends with status 0 has written each of the five
\* artifacts (stage-1 draft, gap analysis, final draft, rendered HTML, final
\* PDF) and has not written the error file; the error file is written only
\* in runs that end with the failure status.
C12_SuccessHasFiveArtifacts ==
    /\ (Exited /\ exitCode = ExitSuccess) =>
          /\ \A a \in RunArtifacts : Len(files[a]) = 1
          /\ files["tailored_resume_stage1.md"] = << tailored >>
          /\ files["recruiter_gaps.json.txt"] = << gapsJson >>
          /\ files["tailored_resume_final.md"] = << fixedResume >>
          /\ files["tailored_resume_rendered.html"]
                = << Filled(fixedResume, RenderTitle) >>
          /\ files["tailored_resume_final.pdf"]
                = << PdfOf(Filled(fixedResume, RenderTitle)) >>
          /\ files["error.txt"] = <<>>
    /\ files["error.txt"] # <<>> =>
          (Exited /\ exitCode = ExitFailure /\ failedAt # "none")

\* C12 witness: a run has ended with status 0 and the five artifacts.
C12_Witness ==
    /\ Exited /\ exitCode = ExitSuccess
    /\ \A a \in RunArtifacts : Len(files[a]) = 1
    /\ files["error.txt"] = <<>>

\* s is an initial segment of t
IsPrefix(s, t) == Len(s) <= Len(t) /\ SubSeq(t, 1, Len(s)) = s

\* the stages begun so far are the first ones of the fixed order, each once,
\* and each was begun with the output of the one before it available
StagesInOrder ==
    /\ IsPrefix(started, AllStages)
    /\ Len(started) >= 2 => resumeText \in ResumeTexts
    /\ Len(started) >= 3 => files["tailored_resume_stage1.md"] = << tailored >>
    /\ Len(started) >= 4 => files["recruiter_gaps.json.txt"] = << gapsJson >>
    /\ Len(started) >= 5 => files["tailored_resume_final.md"] = << fixedResume >>
    /\ (Exited /\ exitCode = ExitSuccess) =>
          (started = AllStages /\ browser = "closed"
             /\ Len(files["tailored_resume_final.pdf"]) = 1)
    /\ failedAt # "none" => pc \in {"catch", "exited"}

\* a step begins at most the one next stage, and none once a stage failed
OneStageAtATime ==
    /\ started' # started =>
          (failedAt = "none" /\ Len(started) < Len(AllStages)
             /\ started' = Append(started, AllStages[Len(started) + 1]))
    /\ failedAt # "none" => (started' = started /\ failedAt' = failedAt)

\* C13: the main flow begins its stages only in the order ExtractText,
\* TailorDraft, CritiqueGaps, ReviseDraft, RenderPdf and ends with status 0
\* only after all of them: each stage is begun at most once, none is
\* skipped, none is begun before the output of the previous one is
\* available, and after a failure no stage is begun again.
C13_StagesInOrderOnce == []StagesInOrder /\ [][OneStageAtATime]_vars

\* C13 witness: the run is done after the five stages, begun in order.
C13_Witness ==
    Exited /\ exitCode = ExitSuccess /\ started = AllStages
        /\ failedAt = "none"

\* some artifact holds the text
Persisted(text) == \E a \in Artifacts : files[a] = << text >>

\* C14 (as stated): for every one of the five stages, when the next stage
\* begins (or the run is done) an artifact holding the output of the
\* completed stage has already been written.
C14_EveryStagePersisted ==
    /\ Len(started) >= 2 => Persisted(resumeText)
    /\ Len(started) >= 3 => Persisted(tailored)
    /\ Len(started) >= 4 => Persisted(gapsJson)
    /\ Len(started) >= 5 => Persisted(fixedResume)
    /\ (Exited /\ exitCode = ExitSuccess) =>
          Persisted(PdfOf(Filled(fixedResume, RenderTitle)))

\* the generation and render stages have their artifact on disk when the
\* next stage has begun, or the run is done
LaterStagesPersisted ==
    /\ Len(started) >= 3 => files["tailored_resume_stage1.md"] = << tailored >>
    /\ Len(started) >= 4 => files["recruiter_gaps.json.txt"] = << gapsJson >>
    /\ Len(started) >= 5 => files["tailored_resume_final.md"] = << fixedResume >>
    /\ (Exited /\ exitCode = ExitSuccess) =>
          /\ files["tailored_resume_rendered.html"]
                = << Filled(fixedResume, RenderTitle) >>
          /\ files["tailored_resume_final.pdf"]
                = << PdfOf(Filled(fixedResume, RenderTitle)) >>

\* the step that begins the tailor stage finds, and leaves, no artifact
ExtractNotPersisted ==
    (Len(started) = 1 /\ Len(started') = 2) =>
        (resumeText \in ResumeTexts /\ \A a \in Artifacts : files'[a] = <<>>)

\* C14 (amended): the tailor, critique, revise and render stages have
\* written the artifact with their output before the next stage begins (the
\* render stage: before the run is done); the extracted resume text is
\* handed to the tailor stage in memory only, with no artifact written.
C14_GeneratedStagesPersisted ==
    []LaterStagesPersisted /\ [][ExtractNotPersisted]_vars

\* C14 witness: the critique request is in flight with the stage-1 draft
\* already on disk.
C14_Witness ==
    /\ started = << "ExtractText", "TailorDraft", "CritiqueGaps" >>
    /\ call = "wait1" /\ tailored # <<>>
    /\ files["tailored_resume_stage1.md"] = << tailored >>

(***************************************************************************)
(* Statements about stage 2 and the data handed from stage to stage.       *)
(***************************************************************************)
\* t has a "{" with a "}" somewhere after it
HasEmbedded(t) ==
    \E i \in 1..Len(t) : t[i] = "{" /\ \E j \in (i + 1)..Len(t) : t[j] = "}"

\* the part of t from its first "{" to its last "}"
Embedded(t) ==
    LET open == { i \in 1..Len(t) : t[i] = "{" }
        close == { j \in 1..Len(t) : t[j] = "}" }
        i == CHOOSE i \in open : \A m \in open : i <= m
        j == CHOOSE j \in close : \A m \in close : m <= j
    IN  SubSeq(t, i, j)

\* the critique text has been returned and stage 2 is about to use it
CritiqueReturned == pc = "critique" /\ call = "returned"

\* stage 2 is complete and the revise stage not yet begun: retText is still
\* the critique text
CritiqueDone == pc = "revise" /\ call = "idle" /\ Len(started) = 3

\* the gap value is the embedded object when that parses, else the raw text
GapValueAsStated ==
    CritiqueDone =>
        /\ (HasEmbedded(retText) /\ JsonParses(Embedded(retText)))
              => gapsJson = Embedded(retText)
        /\ ~(HasEmbedded(retText) /\ JsonParses(Embedded(retText)))
              => gapsJson = retText
        /\ files["recruiter_gaps.json.txt"] = << gapsJson >>

\* whatever the critique text, stage 2 goes on to the revise stage; the one
\* failure it can have is that of writing its artifact
CritiqueAdvances ==
    CritiqueReturned =>
        \/ pc' = "revise" /\ failedAt' = "none"
        \/ pc' = "catch" /\ err' = FsError /\ files' = files

\* C15: a critique response that is not valid JSON never aborts the run:
\* for every critique text stage 2 completes and the flow advances to the
\* revise stage (the stage can fail only in writing its artifact, never in
\* parsing); the gap value is the first-"{"-to-last-"}" part of the text
\* when that part parses as JSON, and otherwise the whole raw text.
C15_NonJsonCritiqueTolerated ==
    []GapValueAsStated /\ [][CritiqueAdvances]_vars

\* C15 witness: a critique text with braces that is not JSON was kept whole
\* and the flow stands at the revise stage.
C15_Witness ==
    /\ CritiqueDone /\ HasEmbedded(retText) /\ ~JsonParses(Embedded(retText))
    /\ gapsJson = retText /\ failedAt = "none"

\* the part of t between the first token `from` and the last token `to`
Between(t, from, to) ==
    LET a == CHOOSE i \in 1..Len(t) : t[i] = from /\ \A m \in 1..(i - 1) : t[m] # from
        b == CHOOSE j \in 1..Len(t) : t[j] = to /\ \A m \in (j + 1)..Len(t) : t[m] # to
    IN  SubSeq(t, a + 1, b - 1)

\* the prompt text a request body carries
PromptOf(body) == body.contents[1].parts[1].text

\* the one text an artifact holds
ContentOf(name) == files[name][1]

\* the requests of the critique stage embed the stage-1 artifact
CritiquePromptEmbedsDraft ==
    (pc = "critique" /\ Len(reqs) >= 1) =>
        \A i \in 1..Len(reqs) :
            Between(PromptOf(reqs[i]), "Candidate tailored resume:",
                    "Task: ... Return the response as JSON ...")
              = ContentOf("tailored_resume_stage1.md")

\* the requests of the revise stage embed the stage-1 and the gap artifact
FixPromptEmbedsDraftAndGaps ==
    (pc = "revise" /\ Len(reqs) >= 1) =>
        \A i \in 1..Len(reqs) :
            /\ Between(PromptOf(reqs[i]),
                   "You are an expert resume writer. Given ... Tailored resume:",
                   "Recruiter gaps (JSON):")
                 = ContentOf("tailored_resume_stage1.md")
            /\ Between(PromptOf(reqs[i]), "Recruiter gaps (JSON):",
                   "Task: ... Return only the final updated resume in Markdown.")
                 = ContentOf("recruiter_gaps.json.txt")

\* the HTML the renderer has written is made from the final-draft artifact
RendererGetsFinalDraft ==
    files["tailored_resume_rendered.html"] # <<>> =>
        /\ ContentOf("tailored_resume_rendered.html")
              = Filled(ContentOf("tailored_resume_final.md"), RenderTitle)
        /\ Contains(ContentOf("tailored_resume_rendered.html"),
                    MarkedParse(ContentOf("tailored_resume_final.md")))

\* C16: what a stage writes to disk is what the next stage receives: the
\* stage-1 artifact is the tailored text embedded in the critique and the
\* revise prompt, the gap artifact is the gap text embedded in the revise
\* prompt, and the final-draft artifact is the Markdown the renderer fills
\* its template with.
C16_ArtifactsAreStageInputs ==
    /\ CritiquePromptEmbedsDraft
    /\ FixPromptEmbedsDraftAndGaps
    /\ RendererGetsFinalDraft

\* C16 witness: the revise request is in flight; its prompt carries the gap
\* object that was cut out of a longer critique text and saved.
C16_Witness ==
    /\ pc = "revise" /\ call = "wait1" /\ Len(reqs) = 1
    /\ ContentOf("recruiter_gaps.json.txt") = GapsText
    /\ Contains(PromptOf(reqs[1]), GapsText)
    /\ ~Contains(PromptOf(reqs[1]), <<"Here:">>)

\* the errors a browser step of the renderer raises
BrowserErrors ==
    { <<"Error: Failed to launch">>, <<"Error: Protocol error">>,
      <<"TimeoutError: Navigation timeout">>, <<"Error: Printing failed">>,
      <<"Error: close failed">> }

\* the filled HTML is on disk
HtmlOnDisk ==
    files["tailored_resume_rendered.html"]
        = << Filled(fixedResume, RenderTitle) >>

\* C17: the renderer writes the filled HTML artifact before any browser
\* step: whenever the launch has been reached the artifact is on disk, and
\* it is still there after a failure of the launch, of a page step or of
\* the PDF export, up to the end of the run.
C17_HtmlBeforeBrowser ==
    /\ LaunchReached => HtmlOnDisk
    /\ (RenderRaised /\ err \in BrowserErrors) => HtmlOnDisk

\* C17 witness: the PDF export failed and the run has ended with the HTML
\* artifact on disk and no PDF.
C17_Witness ==
    /\ Exited /\ failedAt = "render" /\ err = <<"Error: Printing failed">>
    /\ HtmlOnDisk /\ files["tailored_resume_final.pdf"] = <<>>

(***************************************************************************)
(* Termination.                                                            *)
(***************************************************************************)
\* the exit statuses the program defines
DefinedCodes == {ExitSuccess, ExitNoKey, ExitNotFound, ExitFailure}

\* the most requests a run can send: two attempts for each generation stage
MaxRequests == 2 * Cardinality(GenStages)

\* C18: when every external call settles, every run ends with an exit
\* status, and the status is one of the defined codes (success, missing
\* credential, resume not found, other failure); the program has no loop:
\* a run begins at most the five stages and sends at most six requests.
C18_RunTerminates ==
    /\ <>Exited
    /\ [](Exited => exitCode \in DefinedCodes)
    /\ [](~Exited => exitCode = NoExit)
    /\ [](netCalls <= MaxRequests /\ Len(started) <= Len(AllStages))

\* C18 witness: the longest run (every call needed its fallback request, the
\* browser failed at its last step) has ended with the failure status.
C18_Witness ==
    /\ Exited /\ exitCode = ExitFailure /\ netCalls = MaxRequests
    /\ err = <<"Error: close failed">> /\ errWrite # "none"

(***************************************************************************)
(* Statements about findResumeFile.                                        *)
(***************************************************************************)
\* the requested path as the lookup first tries it: as given when absolute,
\* else under the working directory
RequestedResolved ==
    IF requested.abs THEN <<"/">> \o requested.segs
    ELSE <<"cwd">> \o requested.segs

\* the file name of the requested path
RequestedBase == requested.segs[Len(requested.segs)]

\* position of path p in the candidate order, 0 when it is not a candidate
PosOf(p) ==
    LET c == Candidates(requested)
    IN  IF \E i \in 1..Len(c) : c[i] = p
        THEN CHOOSE i \in 1..Len(c) : c[i] = p
        ELSE 0

\* the candidate order is the requested path, then the paths of the resume
\* and resumes folders, then the file-name variants under the working
\* directory, each path once
FixedOrder ==
    LET c == Candidates(requested)
        folder == { i \in 1..Len(c) :
                      Len(c[i]) >= 3 /\ c[i][2] \in {"resume", "resumes"} }
        name == { i \in 1..Len(c) : Len(c[i]) = 2 /\ c[i][1] = "cwd" }
    IN  /\ c[1] = RequestedResolved
        /\ \A i, j \in 1..Len(c) : c[i] = c[j] => i = j
        /\ \A i \in 2..Len(c) : i \in folder \cup name
        /\ \A i \in folder \ {1} : \A j \in name \ {1} : i < j
        /\ PosOf(<<"cwd", RequestedBase>>) # 0
        /\ PosOf(<<"cwd", toLowerCase(RequestedBase)>>) # 0
        /\ PosOf(<<"cwd", DashToUnderscore(RequestedBase)>>) # 0
        /\ \E i \in folder : c[i][2] = "resume"
        /\ \E i \in folder : c[i][2] = "resumes"

\* C19: findResumeFile returns the first existing path of the fixed
\* candidate order (the requested path, then the resume/resumes folder
\* variants, then the file-name variants, each once): the requested path
\* when that exists, and null only when no candidate exists.
C19_FirstExistingCandidate ==
    resolved # Unresolved =>
        /\ FixedOrder
        /\ resolved = NotFound <=> ResumeAbsent
        /\ resolved # NotFound =>
              /\ resolved \in existing /\ PosOf(resolved) # 0
              /\ \A i \in 1..(PosOf(resolved) - 1) :
                    Candidates(requested)[i] \notin existing
        /\ RequestedResolved \in existing => resolved = RequestedResolved

\* C19 witness: the requested path does not exist, two later candidates do,
\* and the earlier of the two was returned.
C19_Witness ==
    /\ resolved # Unresolved /\ resolved # NotFound
    /\ RequestedResolved \notin existing
    /\ \E i \in 1..Len(Candidates(requested)) :
          /\ i > PosOf(resolved)
          /\ Candidates(requested)[i] \in existing
====
